---- MODULE Spec2Model ----
(***************************************************************************)
(* Model of the Amazon Jobs Monitor control panel.                         *)
(*                                                                         *)
(*   backend/index.js : the Event Broadcast Channel (clients, broadcastLog,*)
(*                      the console overrides, the WebSocket handlers) and *)
(*                      the Control Service (/start, /stop, /status).      *)
(*   App (React)      : the Client Session (connectWebSocket and its       *)
(*                      handlers, fetchStatus, handleCheckConnection).     *)
(*                                                                         *)
(* The worker module (./src/monitorJobs.js) is not part of the sources;    *)
(* its three entry points are modelled from the specification.             *)
(*                                                                         *)
(* Spec        : the backend process.                                      *)
(* ClientSpec  : one Client Session.                                       *)
(* FairClientSpec : ClientSpec with the fairness of the browser event loop.*)
(***************************************************************************)
EXTENDS Integers, Sequences, FiniteSets, TLC

\* ------------------------------------------------------------------ bounds
NumSockets == 2      \* server-side connections accepted in one run
MaxPublish == 2      \* lines console.log publishes in one run
MaxStarts == 2       \* accepted or attempted worker starts in one run
MaxSendFailures == 1 \* sends that throw in one run
ClientSlots == 3     \* client-side WebSocket objects alive at once
MaxFetch == 1        \* status fetches in flight at once
MaxCycles == 2       \* runs of the liveness check in one run
MaxHeartbeats == 1   \* heartbeat frames one server-side socket answers
MaxFields == 2       \* link fields, and position fields, of the form

\* --------------------------------------------------------------- constants
MAX_RETRIES == 10
BACKOFF_BASE == 1000
BACKOFF_CAP == 30000

Sockets == 1..NumSockets

VARIABLES
    \* ---- backend/index.js
    clients,        \* const clients = new Set(): insertion-ordered, as a sequence
    readyState,     \* ws.readyState of every server-side socket
    isAlive,        \* ws.isAlive
    frames,         \* frames handed to ws.send, per socket, in order
    published,      \* history: the arguments of broadcastLog, in call order
    joinedAt,       \* history: Len(published) when the socket was added to clients
    failedSends,    \* history: <<socket, index>> of sends that threw
    res,            \* the last HTTP response
    \* ---- ./src/monitorJobs.js (modelled from the specification)
    isRunning,      \* RunState.isRunning
    activeRuns,     \* worker runs started and not yet told to stop
    workerStarts,   \* history: calls of startMonitoringJobs
    workerStops,    \* history: calls of stopMonitoringJobs
    task,           \* the promise returned by startMonitoringJobs
    config,         \* the config of the last call of startMonitoringJobs
    configsBuilt,   \* history: config objects built by /start
    sinceStart,     \* history: a /start was accepted and no /stop since
    reqArrays,      \* history: links and positions of the last POST /start were arrays
    reqBody,        \* the body of the POST /start the last step handled
    pings,          \* history: calls of ws.ping(), per socket
    terminated,     \* history: the sockets ws.terminate() was called on
    pendingPing,    \* history: the sockets pinged with no pong processed since
    cycles,         \* history: runs of the pingInterval callback
    srvIn,          \* the frame the last step's ws.on('message') handler received
    consoleLine,    \* the call of console.log or console.error the last step made
    \* ---- App (the Client Session)
    mounted,        \* the mount effect has run
    ws,             \* ws.current: 0 (null) or a WebSocket object
    wsState,        \* readyState of every WebSocket object the session made
    retryCount,     \* retryCount.current
    retryTimeoutRef,\* retryTimeoutRef.current: 0 (null), Stale or a timer id
    timers,         \* pending setTimeout(connectWebSocket, delay) calls
    heartbeats,     \* active heartbeatInterval timers, by the socket that opened
    isConnected,    \* useState isConnected
    statusMessage,  \* useState statusMessage
    logged,         \* the entries the last step appended to useState logs
    fetches,        \* fetchStatus calls awaiting their response
    statusTimer,    \* the mount effect's setTimeout(fetchStatus, 3000) is pending
    formLinks,      \* useState jobLinks: the link fields of the form
    formPositions,  \* useState positions: the position fields of the form
    errors,         \* useState errors
    startRequest,   \* the POST /start startMonitoring sent and awaits the answer of
    beat,           \* the heartbeat tick of the last step: its timer, the socket sent on
    cliIn,          \* the frame the last step's onmessage handler received
    step            \* history: the operation that produced this state

serverVars == <<clients, readyState, isAlive, frames, published, joinedAt,
                failedSends, res, isRunning, activeRuns,
                workerStarts, workerStops, task, config, configsBuilt,
                sinceStart, reqArrays, reqBody, pings, terminated, pendingPing, cycles,
                srvIn, consoleLine>>

livenessVars == <<pings, terminated, pendingPing, cycles>>

clientVars == <<mounted, ws, wsState, retryCount, retryTimeoutRef, timers,
                heartbeats, isConnected, statusMessage, logged,
                fetches, statusTimer, formLinks, formPositions, errors, startRequest,
                beat, cliIn>>

formVars == <<formLinks, formPositions, errors, startRequest>>

vars == <<serverVars, clientVars, step>>

\* ------------------------------------------------------------------ strings
\* A string is a sequence of tokens: "sp" is a whitespace character, "P" the
\* text 'https://hiring.amazon', "B" the text '[BROADCAST]', "x" and "y" any
\* other character.
RECURSIVE TrimStart(_)
TrimStart(s) ==
    IF s # <<>> /\ Head(s) = "sp" THEN TrimStart(Tail(s)) ELSE s

RECURSIVE TrimEnd(_)
TrimEnd(s) ==
    IF s # <<>> /\ s[Len(s)] = "sp" THEN TrimEnd(SubSeq(s, 1, Len(s) - 1)) ELSE s

\* String.prototype.trim
Trim(s) == TrimEnd(TrimStart(s))

\* link.trim().startsWith('https://hiring.amazon')
StartsWithPrefix(s) == Len(s) >= 1 /\ s[1] = "P"

\* a marker test that never finds the marker
NoMarker(s) == FALSE

\* logMessage.includes("[BROADCAST]")
IncludesMarker(s) == \E i \in DOMAIN s : s[i] = "B"

RECURSIVE MapTrim(_)
MapTrim(ss) ==
    IF ss = <<>> THEN <<>> ELSE <<Trim(Head(ss))>> \o MapTrim(Tail(ss))

\* Array.prototype.join(', '): "c" stands for the separator
RECURSIVE Join(_)
Join(ss) ==
    IF ss = <<>> THEN <<>>
    ELSE IF Len(ss) = 1 THEN Head(ss)
    ELSE Head(ss) \o <<"c">> \o Join(Tail(ss))

\* ----------------------------------------------------------------- messages
Msg(kind, text) == [kind |-> kind, text |-> text]

Welcome == [log |-> Msg("welcome", <<>>)]
LogFrame(m) == [log |-> m]

\* JSON.stringify({ type: 'heartbeat_response' }), as a frame of the same shape
HeartbeatResponse == [log |-> Msg("heartbeat_response", <<>>)]

\* no frame received, no heartbeat sent
NoFrame == [on |-> 0, frame |-> "none"]
NoBeat == [timer |-> 0, on |-> 0]

\* no call of console.log or console.error
NoLine == [fn |-> "none", text |-> <<>>]

\* ------------------------------------------------------------ broadcastLog
\* The fan-out as a bug would have it: one try around the whole loop, so the
\* first send that throws ends the loop.
RECURSIVE FanOutAbort(_, _, _, _)
FanOutAbort(cs, fr, m, throwing) ==
    IF cs = <<>> THEN fr
    ELSE LET c == Head(cs)
         IN IF readyState[c] = "OPEN" /\ c \in throwing THEN fr
            ELSE FanOutAbort(Tail(cs),
                             IF readyState[c] = "OPEN"
                             THEN [fr EXCEPT ![c] = Append(@, LogFrame(m))]
                             ELSE fr,
                             m, throwing)

\* The fan-out without the readyState test.
RECURSIVE FanOutAnyState(_, _, _, _)
FanOutAnyState(cs, fr, m, throwing) ==
    IF cs = <<>> THEN fr
    ELSE LET c == Head(cs)
             sent == IF c \notin throwing
                     THEN [fr EXCEPT ![c] = Append(@, LogFrame(m))]
                     ELSE fr
         IN FanOutAnyState(Tail(cs), sent, m, throwing)

\* clients.forEach(client => { if (client.readyState === 1) { try { client.send(..) }
\* catch (err) { originalConsoleError(..) } } }): `throwing` is the set of
\* clients whose send throws in this call.
RECURSIVE FanOut(_, _, _, _)
FanOut(cs, fr, m, throwing) ==
    IF cs = <<>> THEN fr
    ELSE LET c == Head(cs)
             sent == IF readyState[c] = "OPEN" /\ c \notin throwing
                     THEN [fr EXCEPT ![c] = Append(@, LogFrame(m))]
                     ELSE fr
         IN FanOut(Tail(cs), sent, m, throwing)

OpenClients == {c \in Sockets : \E i \in DOMAIN clients : clients[i] = c
                                 /\ readyState[c] = "OPEN"}

\* The state a sequence of broadcastLog calls leaves: ms are the messages,
\* ths the throwing set of each call.
RECURSIVE BroadcastAll(_, _, _, _, _)
BroadcastAll(ms, ths, fr, pub, failed) ==
    IF ms = <<>> THEN [frames |-> fr, published |-> pub, failedSends |-> failed]
    ELSE BroadcastAll(Tail(ms), Tail(ths),
                      FanOut(clients, fr, Head(ms), Head(ths)),
                      Append(pub, Head(ms)),
                      failed \cup {<<c, Len(pub) + 1>> : c \in Head(ths)})

broadcastLog(ms, ths) ==
    LET out == BroadcastAll(ms, ths, frames, published, failedSends)
    IN /\ frames' = out.frames
       /\ published' = out.published
       /\ failedSends' = out.failedSends

\* the sets of clients whose send may throw in one broadcastLog call
ThrowingSets ==
    IF Cardinality(failedSends) < MaxSendFailures
    THEN {{}} \cup {{c} : c \in OpenClients}
    ELSE {{}}

\* ------------------------------------------- ./src/monitorJobs.js (worker)
\* isJobMonitorRunning()
isJobMonitorRunning == isRunning

\* startMonitoringJobs(config, broadcastLog): the run is registered before the
\* call returns its promise.
startMonitoringJobs(cfg) ==
    /\ isRunning' = TRUE
    /\ activeRuns' = activeRuns + 1
    /\ workerStarts' = workerStarts + 1
    /\ task' = "pending"
    /\ config' = cfg
    /\ UNCHANGED workerStops

\* stopMonitoringJobs(): the run is told to stop; its teardown follows.
stopMonitoringJobs ==
    /\ isRunning' = FALSE
    /\ activeRuns' = 0
    /\ workerStops' = workerStops + 1
    /\ task' = IF task = "pending" THEN "stopping" ELSE task
    /\ UNCHANGED <<workerStarts, config>>

workerVars == <<isRunning, activeRuns, workerStarts, workerStops, task, config>>

\* ------------------------------------------------------------ request bodies
Arr(items) == [isArray |-> TRUE, items |-> items]
NotArray == [isArray |-> FALSE, items |-> <<>>]

\* an array element that is not a string (a number, null, an object): it has
\* no trim method
NonString == <<"nonstring">>

LinkInputs ==
    { NotArray,
      Arr(<< <<"x">> >>),
      Arr(<< <<>>, <<"sp", "P">>, <<"P", "y">> >>),
      Arr(<< <<"P">>, NonString >>) }

PositionInputs ==
    { NotArray,
      Arr(<< <<"sp">> >>),
      Arr(<< <<"sp", "x">>, <<>>, <<"y">> >>),
      Arr(<< <<"x">>, NonString >>) }

Bodies == [links : LinkInputs, positions : PositionInputs]

\* no POST /start in this step
NoBody == [links |-> NotArray, positions |-> NotArray]

NoConfig == [TARGET_JOBS |-> <<>>, AMAZON_JOBS_URL |-> <<>>]

\* links.filter(link => link.trim().startsWith('https://hiring.amazon'))
JobLinks(links) == SelectSeq(links, LAMBDA l : StartsWithPrefix(Trim(l)))

\* positions.map(pos => pos.trim()).filter(pos => pos.length > 0)
TargetPositions(positions) == SelectSeq(MapTrim(positions), LAMBDA q : Len(q) > 0)

Response(route, status, message) ==
    [route |-> route, status |-> status, message |-> message]

NoResponse == Response("none", 0, "none")

\* link.trim() or pos.trim() throws a TypeError for some element
TrimThrows(items) == \E i \in DOMAIN items : items[i] = NonString

\* What the client gets when the async handler of /start throws: Express 4
\* leaves the rejected promise alone and sends no response, Express 5 hands it
\* to the error handler, which answers 500.
Unhandled ==
    { Response("start", 0, "no response"),
      Response("start", 500, "Internal Server Error") }

socketVars == <<clients, readyState, isAlive, joinedAt>>
channelVars == <<frames, published, failedSends>>

\* --------------------------------------------------------------- POST /start
\* the handler without its test of isJobMonitorRunning()
StartGuardOff == FALSE

\* if (isJobMonitorRunning())
StartRunningGuard == isJobMonitorRunning

\* the handler of POST /start, for the request body `body`
StartHandler(body) ==
        /\ step' = "start"
        /\ UNCHANGED livenessVars
        /\ srvIn' = NoFrame
        /\ consoleLine' = NoLine
        /\ reqArrays' = (body.links.isArray /\ body.positions.isArray)
        /\ reqBody' = body
        /\ UNCHANGED socketVars
        /\ IF ~body.links.isArray \/ ~body.positions.isArray
           THEN /\ res' = Response("start", 400, "Invalid input format")
                /\ UNCHANGED <<channelVars, workerVars, configsBuilt, sinceStart>>
           ELSE IF StartRunningGuard
           THEN /\ res' = Response("start", 400, "Script is already running")
                /\ UNCHANGED <<channelVars, workerVars, configsBuilt, sinceStart>>
           ELSE IF TrimThrows(body.links.items) \/ TrimThrows(body.positions.items)
           THEN /\ res' \in Unhandled
                /\ UNCHANGED <<channelVars, workerVars, configsBuilt, sinceStart>>
           ELSE LET jobLinks == JobLinks(body.links.items)
                    targetPositions == TargetPositions(body.positions.items)
                IN IF Len(jobLinks) = 0 \/ Len(targetPositions) = 0
                   THEN /\ res' = Response("start", 400,
                                     "Provide valid Amazon job links and target positions")
                        /\ UNCHANGED <<channelVars, workerVars, configsBuilt, sinceStart>>
                   ELSE LET cfg == [TARGET_JOBS |-> targetPositions,
                                    AMAZON_JOBS_URL |-> jobLinks[1]]
                        IN /\ workerStarts < MaxStarts
                           /\ configsBuilt' = configsBuilt + 1
                           /\ \E th1 \in ThrowingSets, th2 \in ThrowingSets :
                                 broadcastLog(<<Msg("starting", cfg.AMAZON_JOBS_URL),
                                                Msg("looking", Join(cfg.TARGET_JOBS))>>,
                                              <<th1, th2>>)
                           /\ startMonitoringJobs(cfg)
                           /\ res' = Response("start", 200, "Script started")
                           /\ sinceStart' = TRUE

\* app.post('/start', ..), for any request body
StartRoute ==
    \E body \in Bodies :
        /\ StartHandler(body)
        /\ UNCHANGED clientVars

\* ---------------------------------------------------------------- POST /stop
\* the handler without its test of isJobMonitorRunning()
StopGuardOff == FALSE

\* if (!isJobMonitorRunning())
StopRunningGuard == ~isJobMonitorRunning

StopRoute ==
    \E th \in ThrowingSets :
        /\ step' = "stop"
        /\ UNCHANGED <<clientVars, livenessVars>>
        /\ srvIn' = NoFrame
        /\ consoleLine' = NoLine
        /\ UNCHANGED reqArrays /\ reqBody' = NoBody
        /\ UNCHANGED <<socketVars, configsBuilt>>
        /\ IF StopRunningGuard
           THEN /\ res' = Response("stop", 400, "Script is not running")
                /\ UNCHANGED <<channelVars, workerVars, sinceStart>>
           ELSE /\ stopMonitoringJobs
                /\ broadcastLog(<<Msg("stopped", <<>>)>>, <<th>>)
                /\ res' = Response("stop", 200, "Script stopped")
                /\ sinceStart' = FALSE

\* ---------------------------------------------------------------- GET /status
StatusRoute ==
    /\ step' = "status"
    /\ UNCHANGED <<clientVars, livenessVars>>
    /\ srvIn' = NoFrame
    /\ consoleLine' = NoLine
    /\ UNCHANGED reqArrays /\ reqBody' = NoBody
    /\ res' = Response("status", 200, IF isJobMonitorRunning THEN "true" ELSE "false")
    /\ UNCHANGED <<socketVars, channelVars, workerVars, configsBuilt, sinceStart>>

\* ------------------------------------------------------- the worker's events
ConsoleLines ==
    Cardinality({i \in DOMAIN published : published[i].kind = "console"})

\* a console.error that broadcasts its line twice
ConsoleErrorTwice(text, th) ==
    broadcastLog(<<Msg("ERROR", text), Msg("ERROR", text)>>, <<th, {}>>)

\* console.error = function(...args): the line is broadcast unless it carries
\* the marker
ConsoleError(text, th) ==
    IF ~IncludesMarker(text)
    THEN broadcastLog(<<Msg("ERROR", text)>>, <<th>>)
    ELSE UNCHANGED channelVars

\* the lines console.error is called with: `Monitor jobs error: ${error.message}`
\* for a message without and with the text '[BROADCAST]'
ErrorTexts == {<<"x">>, <<"B", "x">>}

\* startMonitoringJobs(..).catch(error => console.error(`Monitor jobs error: ..`))
WorkerFail ==
    \E text \in ErrorTexts, th \in ThrowingSets :
        /\ task \in {"pending", "stopping"}
        /\ step' = "worker_fail"
        /\ UNCHANGED <<clientVars, livenessVars>>
        /\ srvIn' = NoFrame
        /\ consoleLine' = [fn |-> "error", text |-> text]
        /\ UNCHANGED reqArrays /\ reqBody' = NoBody
        /\ task' = "rejected"
        /\ ConsoleError(text, th)
        /\ UNCHANGED <<socketVars, isRunning, activeRuns, workerStarts, workerStops,
                       config, configsBuilt, sinceStart, res>>

\* the stopped worker finishes its teardown: the promise resolves
WorkerTeardown ==
    /\ task = "stopping"
    /\ step' = "worker_teardown"
    /\ UNCHANGED <<clientVars, livenessVars>>
    /\ srvIn' = NoFrame
    /\ consoleLine' = NoLine
    /\ UNCHANGED reqArrays /\ reqBody' = NoBody
    /\ task' = "resolved"
    /\ UNCHANGED <<socketVars, channelVars, isRunning, activeRuns, workerStarts,
                   workerStops, config, configsBuilt, sinceStart, res>>

\* console.log = function(...args)
ConsoleLog ==
    \E text \in {<<"x">>, <<"y">>, <<"B", "x">>}, th \in ThrowingSets :
        /\ ConsoleLines < MaxPublish
        /\ step' = "console_log"
        /\ UNCHANGED <<clientVars, livenessVars>>
        /\ srvIn' = NoFrame
        /\ consoleLine' = [fn |-> "log", text |-> text]
        /\ UNCHANGED reqArrays /\ reqBody' = NoBody
        /\ IF ~IncludesMarker(text)
           THEN broadcastLog(<<Msg("console", text)>>, <<th>>)
           ELSE UNCHANGED channelVars
        /\ UNCHANGED <<socketVars, workerVars, configsBuilt, sinceStart, res>>

ErrorLines ==
    Cardinality({i \in DOMAIN published : published[i].kind = "ERROR"})

\* console.error = function(...args), called by any code of the process
ConsoleErrorLine ==
    \E text \in ErrorTexts, th \in ThrowingSets :
        /\ ErrorLines < MaxPublish
        /\ step' = "console_error"
        /\ UNCHANGED <<clientVars, livenessVars>>
        /\ srvIn' = NoFrame
        /\ consoleLine' = [fn |-> "error", text |-> text]
        /\ UNCHANGED reqArrays /\ reqBody' = NoBody
        /\ ConsoleError(text, th)
        /\ UNCHANGED <<socketVars, workerVars, configsBuilt, sinceStart, res>>

\* ------------------------------------------------------ WebSocket connections
InClients(s) == \E i \in DOMAIN clients : clients[i] = s

\* a connection handler that sends no welcome
WelcomeSkipped(fr) == fr

\* ws.send(JSON.stringify({ log: "Connected to Amazon Jobs Monitor" })), the
\* last statement of the connection handler, on the new socket's frames fr.
\* ws emits 'connection' with the socket OPEN, and the handler runs to its end
\* before any other callback.
SendWelcome(fr) == Append(fr, Welcome)

\* wss.on('connection', (ws) => {...})
Connection(s) ==
    /\ readyState[s] = "NONE"
    /\ step' = "connection"
    /\ UNCHANGED <<clientVars, livenessVars>>
    /\ srvIn' = NoFrame
    /\ consoleLine' = NoLine
    /\ UNCHANGED reqArrays /\ reqBody' = NoBody
    /\ clients' = Append(clients, s)
    /\ readyState' = [readyState EXCEPT ![s] = "OPEN"]
    /\ isAlive' = [isAlive EXCEPT ![s] = TRUE]
    /\ joinedAt' = [joinedAt EXCEPT ![s] = Len(published)]
    /\ frames' = [frames EXCEPT ![s] = SendWelcome(@)]
    /\ UNCHANGED <<published, failedSends, workerVars, configsBuilt, sinceStart, res>>

\* the connection leaves OPEN: a close frame arrives or is sent, or the
\* transport drops; the 'close' event has not been emitted yet
BeginClose(s) ==
    /\ readyState[s] = "OPEN"
    /\ step' = "begin_close"
    /\ UNCHANGED <<clientVars, livenessVars>>
    /\ srvIn' = NoFrame
    /\ consoleLine' = NoLine
    /\ UNCHANGED reqArrays /\ reqBody' = NoBody
    /\ readyState' = [readyState EXCEPT ![s] = "CLOSING"]
    /\ UNCHANGED <<clients, isAlive, joinedAt, channelVars, workerVars,
                   configsBuilt, sinceStart, res>>

\* ws.on('close', (code, reason) => { ...; clients.delete(ws) })
OnClose(s) ==
    /\ readyState[s] \in {"OPEN", "CLOSING"}
    /\ step' = "close"
    /\ UNCHANGED <<clientVars, livenessVars>>
    /\ srvIn' = NoFrame
    /\ consoleLine' = NoLine
    /\ UNCHANGED reqArrays /\ reqBody' = NoBody
    /\ readyState' = [readyState EXCEPT ![s] = "CLOSED"]
    /\ clients' = SelectSeq(clients, LAMBDA c : c # s)
    /\ UNCHANGED <<isAlive, joinedAt, channelVars, workerVars,
                   configsBuilt, sinceStart, res>>

\* ------------------------------------------------------------ liveness check
\* wss.clients: the library's own set, a socket is in it from its connection
\* until its 'close' event
WssClients == {s \in Sockets : readyState[s] \in {"OPEN", "CLOSING"}}

\* a liveness check that never finds a socket inactive
NeverInactive(s) == FALSE

\* if (ws.isAlive === false)
IsInactive(s) == isAlive[s] = FALSE

\* ws.on('pong', () => { ws.isAlive = true })
Pong(s) ==
    /\ readyState[s] = "OPEN"
    /\ pings[s] > 0
    /\ step' = "pong"
    /\ UNCHANGED clientVars
    /\ srvIn' = NoFrame
    /\ consoleLine' = NoLine
    /\ reqBody' = NoBody
    /\ isAlive' = [isAlive EXCEPT ![s] = TRUE]
    /\ pendingPing' = pendingPing \ {s}
    /\ UNCHANGED <<clients, readyState, joinedAt, channelVars, workerVars,
                   configsBuilt, sinceStart, res, reqArrays, pings, terminated,
                   cycles>>

\* setInterval(() => { wss.clients.forEach((ws) => { if (ws.isAlive === false)
\* return ws.terminate(); ws.isAlive = false; ws.ping() }) }, 30000).
\* terminate() takes the socket out of OPEN at once; its 'close' event follows.
PingCycle ==
    LET inactive == {s \in WssClients : IsInactive(s)}
        pinged == WssClients \ inactive
    IN /\ cycles < MaxCycles
       /\ step' = "ping_cycle"
       /\ UNCHANGED clientVars
       /\ srvIn' = NoFrame
       /\ consoleLine' = NoLine
       /\ reqBody' = NoBody
       /\ cycles' = cycles + 1
       /\ terminated' = terminated \cup inactive
       /\ readyState' = [s \in Sockets |->
                            IF s \in inactive THEN "CLOSING" ELSE readyState[s]]
       /\ isAlive' = [s \in Sockets |-> IF s \in pinged THEN FALSE ELSE isAlive[s]]
       /\ pings' = [s \in Sockets |-> IF s \in pinged THEN pings[s] + 1 ELSE pings[s]]
       /\ pendingPing' = pendingPing \cup pinged
       /\ UNCHANGED <<clients, joinedAt, channelVars, workerVars, configsBuilt,
                      sinceStart, res, reqArrays>>

\* --------------------------------------------------------- ws.on('message')
HeartbeatsAnswered(s) ==
    Cardinality({i \in DOMAIN frames[s] : frames[s][i] = HeartbeatResponse})

\* a handler that answers every frame
AnyFrameIsHeartbeat(frame) == TRUE

\* JSON.parse(message) returns and data.type === 'heartbeat'
IsHeartbeat(frame) == frame = "heartbeat"

\* a handler that answers on the first socket, whichever received the frame
ReplyToFirst(s) == 1

\* the `ws` of ws.send(..) in the message handler: the closure's own socket
ReplyTo(s) == s

\* history: the sends of a heartbeat_response on s that threw; they are
\* recorded in failedSends under the indices 0, -1, ..
ReplyFailures(s) == Cardinality({f \in failedSends : f[1] = s /\ f[2] <= 0})

\* ws.on('message', (message) => { try { const data = JSON.parse(message);
\* if (data.type === 'heartbeat') ws.send(..) } catch (err) { .. } }).
\* "malformed" is a frame JSON.parse or data.type throws on, "other" valid JSON
\* of another type; `throws` says whether ws.send throws.
OnServerMessage(s) ==
    \E frame \in {"heartbeat", "malformed", "other"}, throws \in BOOLEAN :
        /\ readyState[s] = "OPEN"
        /\ IsHeartbeat(frame) => HeartbeatsAnswered(s) < MaxHeartbeats
        /\ throws => (IsHeartbeat(frame) /\ Cardinality(failedSends) < MaxSendFailures)
        /\ step' = "server_message"
        /\ UNCHANGED <<clientVars, livenessVars>>
        /\ srvIn' = [on |-> s, frame |-> frame]
        /\ consoleLine' = NoLine
        /\ reqBody' = NoBody
        /\ IF IsHeartbeat(frame) /\ ~throws
           THEN /\ frames' = [frames EXCEPT ![ReplyTo(s)] = Append(@, HeartbeatResponse)]
                /\ UNCHANGED failedSends
           ELSE IF IsHeartbeat(frame)
           THEN /\ failedSends' = failedSends \cup {<<s, 0 - ReplyFailures(s)>>}
                /\ UNCHANGED frames
           ELSE UNCHANGED <<frames, failedSends>>
        /\ UNCHANGED <<socketVars, published, workerVars, configsBuilt, sinceStart,
                       res, reqArrays>>

\* =========================================================== Client Session
Slots == 1..ClientSlots

\* retryTimeoutRef.current still holds the id of a timer that fired or was
\* cleared: truthy, and clearTimeout of it does nothing
Stale == -1

Min(a, b) == IF a < b THEN a ELSE b

\* Math.pow(2, k), k >= 0
RECURSIVE Pow2(_)
Pow2(k) == IF k <= 0 THEN 1 ELSE 2 * Pow2(k - 1)

\* the backoff without its cap
RetryDelayUncapped(n) == BACKOFF_BASE * Pow2(n - 1)

\* Math.min(1000 * Math.pow(2, retryCount.current - 1), 30000)
RetryDelay(n) == Min(BACKOFF_BASE * Pow2(n - 1), BACKOFF_CAP)

\* setLogs(prevLogs => [...prevLogs, entry]), for several entries. No handler
\* reads logs, so the model keeps, of the list, the entries the last step
\* appended to it.
AddLogs(l, entries) == l \o entries

\* the id setTimeout returns: one no pending timer has
FreshTimerId(ts) == CHOOSE i \in 1..(Cardinality(ts) + 1) : \A t \in ts : t.id # i

\* a WebSocket object nothing refers to any more is dropped from the model
Collect(st, cur, hbs) ==
    [s \in Slots |-> IF st[s] = "CLOSED" /\ s # cur /\ s \notin hbs THEN "NONE" ELSE st[s]]

FreeSlots == {s \in Slots : wsState[s] = "NONE"}

\* the ceiling test read as retryCount > MAX_RETRIES
MaxRetriesExceeded(rc) == rc > MAX_RETRIES

\* if (retryCount.current >= MAX_RETRIES)
MaxRetriesReached(rc) == rc >= MAX_RETRIES

\* connectWebSocket without its first statement
KeptTimers(ts, ref) == ts

\* if (retryTimeoutRef.current) clearTimeout(retryTimeoutRef.current)
ClearedTimers(ts, ref) == {t \in ts : t.id # ref}

\* retryTimeoutRef.current once the timer it names is no longer pending
RefAfter(ts, ref) == IF ref # 0 /\ \A t \in ts : t.id # ref THEN Stale ELSE ref

\* connectWebSocket(): rc is retryCount.current, lg the log, ts the pending
\* timers and ref retryTimeoutRef.current at the call; `throws` says whether
\* new WebSocket(WS_URL) throws; post are the log entries the caller appends
\* after the call.
connectWebSocket(rc, lg, post, ts, ref, throws) ==
    LET cleared == ClearedTimers(ts, ref)
    IN IF MaxRetriesReached(rc)
       THEN /\ timers' = cleared
            /\ retryTimeoutRef' = RefAfter(cleared, ref)
            /\ statusMessage' = "Failed to connect to WebSocket"
            /\ isConnected' = FALSE
            /\ logged' = AddLogs(lg, post)
            /\ retryCount' = rc
            /\ UNCHANGED <<ws, wsState>>
       ELSE LET closed == IF ws # 0 /\ wsState[ws] \in {"OPEN", "CONNECTING"}
                          THEN [wsState EXCEPT ![ws] = "CLOSING"]
                          ELSE wsState
                lg2 == AddLogs(lg, <<"connecting">> \o post)
            IN IF throws
               THEN \* catch (error)
                    /\ statusMessage' = "Failed to create WebSocket connection"
                    /\ retryCount' = rc + 1
                    /\ LET id == FreshTimerId(cleared)
                       IN /\ timers' = cleared \cup
                                 {[id |-> id, delay |-> RetryDelay(rc + 1), n |-> rc + 1]}
                          /\ retryTimeoutRef' = id
                    /\ wsState' = closed
                    /\ logged' = lg2
                    /\ UNCHANGED <<ws, isConnected>>
               ELSE /\ FreeSlots # {}
                    /\ LET new == CHOOSE s \in FreeSlots : \A q \in FreeSlots : s <= q
                       IN /\ ws' = new
                          /\ wsState' = Collect([closed EXCEPT ![new] = "CONNECTING"],
                                                new, heartbeats)
                    /\ timers' = cleared
                    /\ retryTimeoutRef' = RefAfter(cleared, ref)
                    /\ retryCount' = rc
                    /\ logged' = lg2
                    /\ UNCHANGED <<isConnected, statusMessage>>

\* fetchStatus(), up to its await: one log entry, one request in flight
FetchStatusLog == <<"checking">>

\* useEffect(() => { connectWebSocket(); setTimeout(() => fetchStatus(), 3000) }, [])
Mount ==
    \E throws \in BOOLEAN :
        /\ ~mounted
        /\ step' = "mount"
        /\ UNCHANGED <<serverVars, formVars>>
        /\ beat' = NoBeat
        /\ cliIn' = "none"
        /\ mounted' = TRUE
        /\ connectWebSocket(retryCount, <<>>, <<>>, timers, retryTimeoutRef, throws)
        /\ statusTimer' = TRUE
        /\ UNCHANGED <<heartbeats, fetches>>

\* the mount effect's setTimeout(() => fetchStatus(), 3000) fires
StatusTimerFires ==
    /\ statusTimer
    /\ fetches < MaxFetch
    /\ step' = "status_timer"
    /\ UNCHANGED <<serverVars, formVars>>
    /\ beat' = NoBeat
    /\ cliIn' = "none"
    /\ statusTimer' = FALSE
    /\ logged' = AddLogs(<<>>, FetchStatusLog)
    /\ fetches' = fetches + 1
    /\ UNCHANGED <<mounted, ws, wsState, retryCount, retryTimeoutRef, timers,
                   heartbeats, isConnected, statusMessage>>

\* a pending setTimeout(connectWebSocket, retryDelay) fires
RetryTimerFires ==
    \E t \in timers, throws \in BOOLEAN :
        /\ step' = "retry"
        /\ UNCHANGED <<serverVars, formVars>>
        /\ beat' = NoBeat
        /\ cliIn' = "none"
        /\ connectWebSocket(retryCount, <<>>, <<>>, timers \ {t},
                            RefAfter(timers \ {t}, retryTimeoutRef), throws)
        /\ UNCHANGED <<mounted, heartbeats, fetches, statusTimer>>

\* handleCheckConnection: the user asks for a reconnect
handleCheckConnection ==
    \E throws \in BOOLEAN :
        /\ mounted
        /\ fetches < MaxFetch
        /\ step' = "manual"
        /\ UNCHANGED <<serverVars, formVars>>
        /\ beat' = NoBeat
        /\ cliIn' = "none"
        /\ connectWebSocket(0, AddLogs(<<>>, <<"manual">>), FetchStatusLog,
                            timers, retryTimeoutRef, throws)
        /\ fetches' = fetches + 1
        /\ UNCHANGED <<mounted, heartbeats, statusTimer>>

\* ws.current.onopen: the connection of socket s is established
SocketOpens(s) ==
    /\ wsState[s] = "CONNECTING"
    /\ fetches < MaxFetch
    /\ step' = "open"
    /\ UNCHANGED <<serverVars, formVars>>
    /\ beat' = NoBeat
    /\ cliIn' = "none"
    /\ wsState' = [wsState EXCEPT ![s] = "OPEN"]
    /\ isConnected' = TRUE
    /\ statusMessage' = "Connected to server"
    /\ retryCount' = 0
    /\ heartbeats' = heartbeats \cup {s}
    /\ logged' = AddLogs(<<>>, <<"connected">> \o FetchStatusLog)
    /\ fetches' = fetches + 1
    /\ UNCHANGED <<mounted, ws, retryTimeoutRef, timers, statusTimer>>

\* Line 98 of the close handler reads heartbeatInterval, a const declared in
\* the body of the open handler (line 77): the name is not in scope, the read
\* throws a ReferenceError and the handler ends there.
HeartbeatIntervalInScope == FALSE

\* ws.current.onclose, for socket s; lg is the log when the handler starts
onclose(s, lg) ==
    IF HeartbeatIntervalInScope
    THEN /\ heartbeats' = heartbeats \ {s}
         /\ isConnected' = FALSE
         /\ statusMessage' = "Disconnected from server"
         /\ retryCount' = retryCount + 1
         /\ logged' = AddLogs(lg, <<"disconnected">>)
         /\ LET id == FreshTimerId(timers)
            IN /\ timers' = timers \cup
                      {[id |-> id, delay |-> RetryDelay(retryCount + 1),
                        n |-> retryCount + 1]}
               /\ retryTimeoutRef' = id
    ELSE /\ logged' = lg
         /\ UNCHANGED <<heartbeats, isConnected, statusMessage, retryCount,
                        timers, retryTimeoutRef>>

\* the connection of socket s ends: with `failed`, the error event comes
\* first (ws.current.onerror), then the close event
SocketCloses(s) ==
    \E failed \in BOOLEAN :
        /\ wsState[s] \in {"CONNECTING", "OPEN", "CLOSING"}
        /\ step' = "close"
        /\ UNCHANGED <<serverVars, formVars>>
        /\ beat' = NoBeat
        /\ cliIn' = "none"
        /\ onclose(s, IF failed THEN AddLogs(<<>>, <<"error">>) ELSE <<>>)
        /\ wsState' = Collect([wsState EXCEPT ![s] = "CLOSED"], ws, heartbeats')
        /\ UNCHANGED <<mounted, ws, fetches, statusTimer>>

\* ws.current.onmessage: a frame arrives on the open socket s
OnMessage(s) ==
    \E frame \in {"log", "heartbeat_response", "malformed"} :
        /\ wsState[s] = "OPEN"
        /\ step' = "message"
        /\ UNCHANGED <<serverVars, formVars>>
        /\ beat' = NoBeat
        /\ cliIn' = frame
        /\ logged' = IF frame = "log" THEN AddLogs(<<>>, <<"server">>) ELSE <<>>
        /\ UNCHANGED <<mounted, ws, wsState, retryCount, retryTimeoutRef, timers,
                       heartbeats, isConnected, statusMessage,
                       fetches, statusTimer>>

\* a heartbeat callback that never finds an open socket
NoHeartbeatTarget(h) == 0

\* the socket the heartbeat callback of timer h tests and sends on: ws.current,
\* whichever socket's open handler started the timer
HeartbeatTarget(h) == ws

\* a tick of the heartbeatInterval the open handler of socket h started
HeartbeatTick(h) ==
    /\ h \in heartbeats
    /\ step' = "heartbeat"
    /\ UNCHANGED <<serverVars, formVars>>
    /\ cliIn' = "none"
    /\ IF HeartbeatTarget(h) # 0 /\ wsState[HeartbeatTarget(h)] = "OPEN"
       THEN \* ws.current.send(JSON.stringify({ type: 'heartbeat' }))
            /\ beat' = [timer |-> h, on |-> HeartbeatTarget(h)]
            /\ UNCHANGED <<heartbeats, wsState>>
       ELSE \* clearInterval(heartbeatInterval)
            /\ beat' = [timer |-> h, on |-> 0]
            /\ heartbeats' = heartbeats \ {h}
            /\ wsState' = Collect(wsState, ws, heartbeats')
    /\ logged' = <<>>
    /\ UNCHANGED <<mounted, ws, retryCount, retryTimeoutRef, timers, isConnected,
                   statusMessage, fetches, statusTimer>>

\* fetchStatus() after its await: the response arrives, or the request fails
\* or times out
FetchCompletes ==
    \E ok \in BOOLEAN :
        /\ fetches > 0
        /\ step' = "fetch"
        /\ UNCHANGED <<serverVars, formVars>>
        /\ beat' = NoBeat
        /\ cliIn' = "none"
        /\ fetches' = fetches - 1
        /\ IF ok
           THEN /\ logged' = AddLogs(<<>>, <<"status">>)
                /\ UNCHANGED <<isConnected, statusMessage>>
           ELSE /\ logged' = AddLogs(<<>>, <<"status_error">>)
                /\ statusMessage' = "Error connecting to server"
                /\ isConnected' = FALSE
        /\ UNCHANGED <<mounted, ws, wsState, retryCount, retryTimeoutRef, timers,
                       heartbeats, statusTimer>>

\* useState({ links: [], positions: [] })
NoErrors == [links |-> <<>>, positions |-> <<>>]

\* no POST /start sent
NoRequest == [sent |-> FALSE, links |-> <<>>, positions |-> <<>>,
              answer |-> NoResponse]

\* ------------------------------------------------------------------ the form
\* validateInputs without the test of the link's prefix
LinkErrorLenient(link, n) ==
    IF Trim(link) = <<>>
    THEN (IF n > 1 THEN "" ELSE "Job link cannot be empty")
    ELSE ""

\* validateInputs, the body of jobLinks.forEach: the error of one link field
\* of a list of n
LinkError(link, n) ==
    IF Trim(link) = <<>>
    THEN (IF n > 1 THEN "" ELSE "Job link cannot be empty")
    ELSE IF ~StartsWithPrefix(Trim(link))
    THEN "Must be a valid Amazon hiring link"
    ELSE ""

\* validateInputs, the body of positions.forEach
PositionError(position, n) ==
    IF Trim(position) = <<>>
    THEN (IF n > 1 THEN "" ELSE "Position cannot be empty")
    ELSE ""

\* the errors validateInputs sets
ValidationErrors ==
    [links |-> [i \in DOMAIN formLinks |-> LinkError(formLinks[i], Len(formLinks))],
     positions |-> [i \in DOMAIN formPositions |->
                       PositionError(formPositions[i], Len(formPositions))]]

\* the value validateInputs returns: isValid is cleared wherever an error
\* text is set
validateInputs ==
    /\ \A i \in DOMAIN formLinks : LinkError(formLinks[i], Len(formLinks)) = ""
    /\ \A i \in DOMAIN formPositions :
          PositionError(formPositions[i], Len(formPositions)) = ""

\* jobLinks.filter(link => link.trim() !== '')
FilterBlank(fields) == SelectSeq(fields, LAMBDA f : Trim(f) # <<>>)

\* startMonitoring, up to its await: the Start button, enabled while
\* isConnected; one request in flight at a time
startMonitoring ==
    LET filteredLinks == FilterBlank(formLinks)
        filteredPositions == FilterBlank(formPositions)
    IN /\ isConnected
       /\ ~startRequest.sent
       /\ step' = "start_click"
       /\ UNCHANGED serverVars
       /\ beat' = NoBeat
       /\ cliIn' = "none"
       /\ errors' = ValidationErrors
       /\ IF ~validateInputs
          THEN /\ statusMessage' = "Please fix the errors before starting"
               /\ logged' = <<>>
               /\ UNCHANGED startRequest
          ELSE IF Len(filteredLinks) = 0
          THEN /\ statusMessage' = "Please add at least one Amazon job link"
               /\ logged' = <<>>
               /\ UNCHANGED startRequest
          ELSE IF Len(filteredPositions) = 0
          THEN /\ statusMessage' = "Please add at least one position to monitor"
               /\ logged' = <<>>
               /\ UNCHANGED startRequest
          ELSE /\ statusMessage' = "Starting job monitor..."
               /\ logged' = AddLogs(<<>>, <<"start_attempt">>)
               /\ startRequest' = [sent |-> TRUE, links |-> filteredLinks,
                                   positions |-> filteredPositions,
                                   answer |-> NoResponse]
       /\ UNCHANGED <<mounted, ws, wsState, retryCount, retryTimeoutRef, timers,
                      heartbeats, isConnected, fetches, statusTimer, formLinks,
                      formPositions>>

\* The POST /start of startMonitoring reaches the backend: the handler runs on
\* JSON.parse(JSON.stringify({ links: filteredLinks, positions:
\* filteredPositions })), two arrays of the strings the client kept, and its
\* response travels back.
StartDelivered ==
    /\ startRequest.sent
    /\ startRequest.answer = NoResponse
    /\ StartHandler([links |-> Arr(startRequest.links),
                     positions |-> Arr(startRequest.positions)])
    /\ startRequest' = [startRequest EXCEPT !.answer = res']
    /\ UNCHANGED <<mounted, ws, wsState, retryCount, retryTimeoutRef, timers,
                   heartbeats, isConnected, statusMessage, logged, fetches,
                   statusTimer, formLinks, formPositions, errors, beat, cliIn>>

\* startMonitoring after its await: the answer is 200 (response.ok), or it is
\* not ok, or the request failed or timed out
StartResponse ==
    \E ok \in BOOLEAN :
        /\ startRequest.sent
        /\ ok => startRequest.answer.status = 200
        /\ step' = "start_response"
        /\ UNCHANGED serverVars
        /\ beat' = NoBeat
        /\ cliIn' = "none"
        /\ startRequest' = NoRequest
        /\ IF ok
           THEN /\ statusMessage' = "Job monitoring started"
                /\ logged' = AddLogs(<<>>, <<"started">>)
           ELSE /\ statusMessage' = "Error starting monitoring"
                /\ logged' = AddLogs(<<>>, <<"start_error">>)
        /\ UNCHANGED <<mounted, ws, wsState, retryCount, retryTimeoutRef, timers,
                       heartbeats, isConnected, fetches, statusTimer, formLinks,
                       formPositions, errors>>

ClientInit ==
    /\ mounted = FALSE
    /\ ws = 0
    /\ wsState = [s \in Slots |-> "NONE"]
    /\ retryCount = 0
    /\ retryTimeoutRef = 0
    /\ timers = {}
    /\ heartbeats = {}
    /\ isConnected = FALSE
    /\ statusMessage = ""
    /\ logged = <<>>
    /\ fetches = 0
    /\ statusTimer = FALSE
    /\ formLinks = << <<>> >>
    /\ formPositions = << <<>> >>
    /\ errors = NoErrors
    /\ startRequest = NoRequest
    /\ beat = NoBeat
    /\ cliIn = "none"

ClientNext ==
    \/ Mount
    \/ StatusTimerFires
    \/ RetryTimerFires
    \/ handleCheckConnection
    \/ \E s \in Slots : SocketOpens(s)
    \/ \E s \in Slots : SocketCloses(s)
    \/ \E s \in Slots : OnMessage(s)
    \/ \E h \in Slots : HeartbeatTick(h)
    \/ FetchCompletes


\* ---------------------------------------------------------------- the backend
ServerInit ==
    /\ clients = <<>>
    /\ readyState = [s \in Sockets |-> "NONE"]
    /\ isAlive = [s \in Sockets |-> FALSE]
    /\ frames = [s \in Sockets |-> <<>>]
    /\ published = <<>>
    /\ joinedAt = [s \in Sockets |-> 0]
    /\ failedSends = {}
    /\ res = NoResponse
    /\ isRunning = FALSE
    /\ activeRuns = 0
    /\ workerStarts = 0
    /\ workerStops = 0
    /\ task = "none"
    /\ config = NoConfig
    /\ configsBuilt = 0
    /\ sinceStart = FALSE
    /\ reqArrays = TRUE
    /\ reqBody = NoBody
    /\ pings = [s \in Sockets |-> 0]
    /\ terminated = {}
    /\ pendingPing = {}
    /\ cycles = 0
    /\ srvIn = NoFrame
    /\ consoleLine = NoLine

\* The Event Broadcast Channel: connections and the lines console.log publishes.
Next ==
    \/ ConsoleLog
    \/ \E s \in Sockets : Connection(s)
    \/ \E s \in Sockets : BeginClose(s)
    \/ \E s \in Sockets : OnClose(s)

Init == ServerInit /\ ClientInit /\ step = "init"

Spec == Init /\ [][Next]_vars

\* The Control Service and the worker. One subscriber connected before the
\* first request: the state Connection(1) leaves.
ControlInit ==
    /\ clients = <<1>>
    /\ readyState = [s \in Sockets |-> IF s = 1 THEN "OPEN" ELSE "NONE"]
    /\ isAlive = [s \in Sockets |-> s = 1]
    /\ frames = [s \in Sockets |-> IF s = 1 THEN <<Welcome>> ELSE <<>>]
    /\ published = <<>>
    /\ joinedAt = [s \in Sockets |-> 0]
    /\ failedSends = {}
    /\ res = NoResponse
    /\ isRunning = FALSE
    /\ activeRuns = 0
    /\ workerStarts = 0
    /\ workerStops = 0
    /\ task = "none"
    /\ config = NoConfig
    /\ configsBuilt = 0
    /\ sinceStart = FALSE
    /\ reqArrays = TRUE
    /\ reqBody = NoBody
    /\ pings = [s \in Sockets |-> 0]
    /\ terminated = {}
    /\ pendingPing = {}
    /\ cycles = 0
    /\ srvIn = NoFrame
    /\ consoleLine = NoLine
    /\ ClientInit
    /\ step = "connection"

ControlNext ==
    \/ StartRoute
    \/ StopRoute
    \/ StatusRoute
    \/ WorkerFail
    \/ WorkerTeardown

ControlSpec == ControlInit /\ [][ControlNext]_vars

\* One Client Session; the backend is its environment.
ClientSpec == Init /\ [][ClientNext]_vars

\* The browser's event loop: a pending timer fires, a request in flight ends,
\* a connection being made or closed reaches its end.
ClientFairness ==
    /\ WF_vars(RetryTimerFires)
    /\ WF_vars(StatusTimerFires)
    /\ WF_vars(FetchCompletes)
    /\ WF_vars(\E h \in Slots : HeartbeatTick(h))
    /\ WF_vars(\E s \in Slots : wsState[s] = "CLOSING" /\ SocketCloses(s))
    /\ WF_vars(\E s \in Slots : wsState[s] = "CONNECTING"
                                 /\ (SocketOpens(s) \/ SocketCloses(s)))

FairClientSpec == ClientSpec /\ ClientFairness

\* A connected Client Session: the state Mount, SocketOpens(1) and the answer
\* to the status fetch leave.
SessionConnected ==
    /\ mounted = TRUE
    /\ ws = 1
    /\ wsState = [s \in Slots |-> IF s = 1 THEN "OPEN" ELSE "NONE"]
    /\ retryCount = 0
    /\ retryTimeoutRef = 0
    /\ timers = {}
    /\ heartbeats = {1}
    /\ isConnected = TRUE
    /\ statusMessage = "Connected to server"
    /\ logged = <<"status">>
    /\ fetches = 0
    /\ statusTimer = TRUE
    /\ beat = NoBeat
    /\ cliIn = "none"

ClientConnected ==
    /\ SessionConnected
    /\ formLinks = << <<>> >>
    /\ formPositions = << <<>> >>
    /\ errors = NoErrors
    /\ startRequest = NoRequest

\* the texts of a link field and of a position field
LinkFields == {<<>>, <<"sp">>, <<"sp", "P", "x">>, <<"x">>}
PositionFields == {<<>>, <<"sp">>, <<"sp", "x">>}

\* the lists of 1..MaxFields fields addLink, removeLink and handleLinkChange
\* (addPosition, ..) can leave
FieldLists(F) == UNION {[1..n -> F] : n \in 1..MaxFields}

\* The form of a connected Client Session, with any fields filled in.
FormInit ==
    /\ ServerInit
    /\ SessionConnected
    /\ formLinks \in FieldLists(LinkFields)
    /\ formPositions \in FieldLists(PositionFields)
    /\ errors = NoErrors
    /\ startRequest = NoRequest
    /\ step = "fetch"

FormNext ==
    \/ startMonitoring
    \/ StartDelivered
    \/ StartResponse

FormSpec == FormInit /\ [][FormNext]_vars

\* The log interception: both console overrides, with one subscriber connected
\* from the start.
InterceptNext ==
    \/ ConsoleLog
    \/ ConsoleErrorLine
    \/ \E s \in Sockets : BeginClose(s)
    \/ \E s \in Sockets : OnClose(s)

InterceptSpec == ControlInit /\ [][InterceptNext]_vars

\* The liveness check of the Event Broadcast Channel.
LivenessNext ==
    \/ \E s \in Sockets : Connection(s)
    \/ \E s \in Sockets : BeginClose(s)
    \/ \E s \in Sockets : OnClose(s)
    \/ \E s \in Sockets : Pong(s)
    \/ PingCycle

LivenessSpec == Init /\ [][LivenessNext]_vars

\* The heartbeat exchange next to the liveness check, with two subscribers
\* connected from the start: the state Connection(1) and Connection(2) leave.
HeartbeatInit ==
    /\ clients = <<1, 2>>
    /\ readyState = [s \in Sockets |-> IF s \in {1, 2} THEN "OPEN" ELSE "NONE"]
    /\ isAlive = [s \in Sockets |-> s \in {1, 2}]
    /\ frames = [s \in Sockets |-> IF s \in {1, 2} THEN <<Welcome>> ELSE <<>>]
    /\ published = <<>>
    /\ joinedAt = [s \in Sockets |-> 0]
    /\ failedSends = {}
    /\ res = NoResponse
    /\ isRunning = FALSE
    /\ activeRuns = 0
    /\ workerStarts = 0
    /\ workerStops = 0
    /\ task = "none"
    /\ config = NoConfig
    /\ configsBuilt = 0
    /\ sinceStart = FALSE
    /\ reqArrays = TRUE
    /\ reqBody = NoBody
    /\ pings = [s \in Sockets |-> 0]
    /\ terminated = {}
    /\ pendingPing = {}
    /\ cycles = 0
    /\ srvIn = NoFrame
    /\ consoleLine = NoLine
    /\ ClientInit
    /\ step = "connection"

HeartbeatNext ==
    \/ \E s \in Sockets : Pong(s)
    \/ PingCycle
    \/ \E s \in Sockets : OnServerMessage(s)
    \/ \E s \in Sockets : OnClose(s)

HeartbeatSpec == HeartbeatInit /\ [][HeartbeatNext]_vars

\* The two ends of the channel: the frames each side receives and the
\* heartbeat exchange, between a connected Client Session and the backend.
ExchangeInit == ServerInit /\ ClientConnected /\ step = "fetch"

ExchangeNext ==
    \/ \E s \in Sockets : Connection(s)
    \/ \E s \in Sockets : BeginClose(s)
    \/ \E s \in Sockets : OnClose(s)
    \/ \E s \in Sockets : OnServerMessage(s)
    \/ \E s \in Slots : OnMessage(s)
    \/ \E h \in Slots : HeartbeatTick(h)

ExchangeSpec == ExchangeInit /\ [][ExchangeNext]_vars

\* ==================================================================== claims

\* the log frames a subscriber is owed: one per message published since it
\* joined, in publish order, without those whose index is in `skipped`
RECURSIVE OwedFrames(_, _, _)
OwedFrames(s, i, skipped) ==
    IF i > Len(published) THEN <<>>
    ELSE (IF <<s, i>> \in skipped THEN <<>> ELSE <<LogFrame(published[i])>>)
         \o OwedFrames(s, i + 1, skipped)

Subscribed(s) == InClients(s) /\ readyState[s] = "OPEN"

\* C1 (as stated): every subscriber that is in clients with an open channel
\* has received, after its welcome, one {log: message} frame per message
\* published since it joined, in publish order.
C1_EveryMessageDelivered ==
    \A s \in Sockets :
        Subscribed(s) => frames[s] = <<Welcome>> \o OwedFrames(s, joinedAt[s] + 1, {})

\* C1 (amended): every subscriber that is in clients with an open channel has
\* received, after its welcome, one {log: message} frame per message published
\* since it joined whose send to it did not throw, in publish order.
C1_DeliveredUnlessSendThrew ==
    \A s \in Sockets :
        Subscribed(s) =>
            frames[s] = <<Welcome>> \o OwedFrames(s, joinedAt[s] + 1, failedSends)

\* two subscribers and two different messages: one subscriber was sent both,
\* in publish order, the send of one message to the other subscriber threw
C1_Witness ==
    /\ \A s \in {1, 2} : Subscribed(s) /\ joinedAt[s] = 0
    /\ Len(published) = 2
    /\ published[1] # published[2]
    /\ \E s \in {1, 2} : frames[s] = <<Welcome, LogFrame(published[1]),
                                       LogFrame(published[2])>>
    /\ \E s \in {1, 2}, i \in {1, 2} : failedSends = {<<s, i>>}

\* C2: a socket whose readyState has left OPEN (CLOSING or CLOSED) is sent no
\* frame by any later step, whether or not it is still in clients.
C2_NoSendAfterLeavingOpen ==
    [][\A s \in Sockets :
          readyState[s] \in {"CLOSING", "CLOSED"} => frames'[s] = frames[s]]_vars

\* a line was published while a socket was closing and still in clients: it
\* holds fewer frames than were published since it joined, and no send threw
C2_Witness ==
    /\ step = "console_log"
    /\ failedSends = {}
    /\ \E s \in Sockets :
          /\ readyState[s] = "CLOSING"
          /\ InClients(s)
          /\ Len(frames[s]) < 1 + Len(published) - joinedAt[s]

AlreadyRunning == Response("start", 400, "Script is already running")

\* C3 (as stated): after an accepted /start with no accepted /stop since,
\* every POST /start is answered 400 'Script is already running', calls the
\* worker's start no further time and builds no config.
C3_SecondStartAlreadyRunning ==
    [][(sinceStart /\ step' = "start") =>
          /\ res' = AlreadyRunning
          /\ workerStarts' = workerStarts
          /\ configsBuilt' = configsBuilt]_vars

\* C3 (amended): after an accepted /start with no accepted /stop since, every
\* POST /start is answered 400: 'Script is already running' when links and
\* positions are arrays, 'Invalid input format' when one of them is not; it
\* calls the worker's start no further time, builds no config and publishes
\* nothing.
C3_SecondStartRejected ==
    [][(sinceStart /\ step' = "start") =>
          /\ res' = IF reqArrays' THEN AlreadyRunning
                    ELSE Response("start", 400, "Invalid input format")
          /\ workerStarts' = workerStarts
          /\ configsBuilt' = configsBuilt
          /\ config' = config
          /\ published' = published
          /\ frames' = frames]_vars

\* a /start answered 'Script is already running' after one accepted /start
C3_Witness ==
    /\ step = "start"
    /\ sinceStart
    /\ res = AlreadyRunning
    /\ workerStarts = 1
    /\ configsBuilt = 1

\* C4: POST /stop while isRunning is false is answered 400 'Script is not
\* running', does not call the worker's stop, publishes nothing and leaves the
\* run state as it was.
C4_StopWhenNotRunning ==
    [][(~isRunning /\ step' = "stop") =>
          /\ res' = Response("stop", 400, "Script is not running")
          /\ workerStops' = workerStops
          /\ published' = published
          /\ frames' = frames
          /\ UNCHANGED <<isRunning, activeRuns, task, config>>]_vars

\* a /stop answered 'Script is not running' after a run was started and stopped
C4_Witness ==
    /\ step = "stop"
    /\ res = Response("stop", 400, "Script is not running")
    /\ workerStarts = 1
    /\ workerStops = 1

LiveSockets == {s \in Slots : wsState[s] \in {"CONNECTING", "OPEN"}}

\* C6: whenever a connection of the client closes while the retry counter is
\* below the ceiling, the session later makes a new connection attempt by
\* itself: a retry timer fires and connectWebSocket creates a socket.
C6_CloseLeadsToRetry ==
    (step = "close" /\ retryCount < MAX_RETRIES)
        ~> (step = "retry" /\ ws # 0 /\ wsState[ws] = "CONNECTING")

\* C7: every close event sets isConnected to false, adds exactly 1 to the
\* retry counter and appends one log entry for the disconnect.
C7_CloseDisconnects ==
    [][step' = "close" =>
          /\ isConnected' = FALSE
          /\ retryCount' = retryCount + 1
          /\ Cardinality({i \in DOMAIN logged' : logged'[i] = "disconnected"}) = 1]_vars

\* min(1000 * 2^(n-1), 30000), written out
BackoffTable(n) ==
    CASE n = 1 -> 1000
      [] n = 2 -> 2000
      [] n = 3 -> 4000
      [] n = 4 -> 8000
      [] n = 5 -> 16000
      [] OTHER -> 30000

\* C8: every pending retry timer was scheduled after the n-th consecutive
\* failure, n = the retry counter >= 1, with a delay of 1000, 2000, 4000,
\* 8000, 16000 ms for n = 1..5 and 30000 ms for n >= 6.
C8_BackoffDelay ==
    \A t \in timers :
        /\ t.n >= 1
        /\ t.n = retryCount
        /\ t.delay = BackoffTable(t.n)

\* a retry scheduled after the sixth failure in a row: the first capped delay
C8_Witness ==
    /\ retryCount = 6
    /\ \E t \in timers : t.n = 6 /\ t.delay = BACKOFF_CAP

\* C9: once the retry counter is at the ceiling, no step other than a manual
\* reconnect schedules a retry timer, creates a socket or changes the counter;
\* the timer of the tenth failure, when it fires, leaves the session given up:
\* not connected, no timer pending.
C9_GaveUpUntilManual ==
    [][(retryCount = MAX_RETRIES /\ step' # "manual") =>
          /\ timers' \subseteq timers
          /\ ws' = ws
          /\ LiveSockets' \subseteq LiveSockets
          /\ retryCount' = retryCount
          /\ (step' = "retry" =>
                /\ timers' = {}
                /\ isConnected' = FALSE
                /\ statusMessage' = "Failed to connect to WebSocket")]_vars

\* the timer of the tenth failure has fired and the session has given up
C9_Witness ==
    /\ retryCount = MAX_RETRIES
    /\ step = "retry"
    /\ timers = {}
    /\ LiveSockets = {}
    /\ statusMessage = "Failed to connect to WebSocket"

C11_UnansweredPingTerminates ==
    [][/\ step' = "ping_cycle" =>
            \A s \in Sockets :
                (s \in pendingPing /\ readyState[s] \in {"OPEN", "CLOSING"}) =>
                    /\ s \in terminated'
                    /\ readyState'[s] = "CLOSING"
                    /\ pings'[s] = pings[s]
       /\ \A s \in terminated : pings'[s] = pings[s]
       /\ step' = "close" =>
            \A s \in Sockets :
                (readyState[s] # "CLOSED" /\ readyState'[s] = "CLOSED") =>
                    ~InClients(s)']_vars

\* two liveness checks: one subscriber answered its ping and was pinged again,
\* the other did not, was terminated at the second check and pinged once, and
\* its close event has removed it from clients
C11_Witness ==
    /\ step = "close"
    /\ cycles = 2
    /\ \E s, t \in Sockets :
          /\ s \in terminated
          /\ pings[s] = 1
          /\ readyState[s] = "CLOSED"
          /\ ~InClients(s)
          /\ pings[t] = 2
          /\ Subscribed(t)

\* C12: in a broadcastLog call in which the send to one subscriber throws,
\* every other open subscriber in clients is still sent the message, the
\* caller's step completes (the message counts as published) and the failing
\* subscriber stays in clients with its connection as it was.
C12_ThrowDoesNotStopFanOut ==
    [][(step' = "console_log" /\ failedSends' # failedSends) =>
          LET i == Len(published')
          IN /\ i = Len(published) + 1
             /\ \A s \in Sockets :
                   Subscribed(s) =>
                      frames'[s] = IF <<s, i>> \in failedSends' THEN frames[s]
                                   ELSE Append(frames[s], LogFrame(published'[i]))
             /\ clients' = clients
             /\ readyState' = readyState]_vars

\* the send to the first subscriber in clients threw and the second one, later
\* in the iteration, was sent the message
C12_Witness ==
    /\ step = "console_log"
    /\ clients = <<1, 2>>
    /\ Subscribed(1)
    /\ Subscribed(2)
    /\ <<1, Len(published)>> \in failedSends
    /\ Len(frames[1]) < Len(frames[2])
    /\ frames[2][Len(frames[2])] = LogFrame(published[Len(published)])

\* the links and positions the claim counts: a link that begins, after
\* trimming, with 'https://hiring.amazon'; a position that is non-empty after
\* trimming
AcceptedLinks(items) ==
    SelectSeq(items, LAMBDA l : l # NonString /\ Len(Trim(l)) >= 1 /\ Trim(l)[1] = "P")

NonEmptyPositions(items) ==
    SelectSeq(MapTrim(SelectSeq(items, LAMBDA q : q # NonString)),
              LAMBDA q : q # <<>>)

\* C13: while isRunning is false, a POST /start whose links and positions are
\* arrays is answered 200 exactly when one link is accepted and one position
\* is non-empty after trimming; then the config's primary target is the first
\* accepted link and its target positions are the trimmed non-empty positions,
\* in input order; otherwise the answer is 400 and the worker is not started.
C13_StartAcceptedIff ==
    [][(~isRunning /\ step' = "start" /\ reqArrays') =>
          LET links == AcceptedLinks(reqBody'.links.items)
              targets == NonEmptyPositions(reqBody'.positions.items)
          IN IF links # <<>> /\ targets # <<>>
             THEN /\ res'.status = 200
                  /\ workerStarts' = workerStarts + 1
                  /\ config'.AMAZON_JOBS_URL = links[1]
                  /\ config'.TARGET_JOBS = targets
             ELSE /\ res'.status = 400
                  /\ workerStarts' = workerStarts
                  /\ UNCHANGED <<isRunning, config>>]_vars

\* the same, for arrays whose elements are all strings
C13_StartAcceptedIffStrings ==
    [][(/\ ~isRunning /\ step' = "start" /\ reqArrays'
        /\ ~TrimThrows(reqBody'.links.items)
        /\ ~TrimThrows(reqBody'.positions.items)) =>
          LET links == AcceptedLinks(reqBody'.links.items)
              targets == NonEmptyPositions(reqBody'.positions.items)
          IN IF links # <<>> /\ targets # <<>>
             THEN /\ res'.status = 200
                  /\ workerStarts' = workerStarts + 1
                  /\ config'.AMAZON_JOBS_URL = links[1]
                  /\ config'.TARGET_JOBS = targets
             ELSE /\ res'.status = 400
                  /\ workerStarts' = workerStarts
                  /\ UNCHANGED <<isRunning, config>>]_vars

\* the text carries '[BROADCAST]'
Marked(text) == \E i \in DOMAIN text : text[i] = "B"

\* C14 (as stated): an accepted /start answers 200 while the task is pending;
\* a later failure of the task leaves the response as it was and becomes
\* exactly one published 'ERROR: ...' line that every open subscriber is sent.
C14_WorkerFailureOneLine ==
    [][/\ (step' = "start" /\ res'.status = 200) => task' = "pending"
       /\ step' = "worker_fail" =>
            /\ res' = res
            /\ published' = Append(published, Msg("ERROR", consoleLine'.text))
            /\ \A s \in Sockets :
                  Subscribed(s) =>
                     frames'[s] = Append(frames[s],
                                         LogFrame(Msg("ERROR", consoleLine'.text)))]_vars

\* C14 (amended): an accepted /start answers 200 while the task is pending; a
\* later failure of the task leaves the response and the run state as they
\* were; when its line does not carry '[BROADCAST]' it becomes exactly one
\* published 'ERROR: ...' line, sent to every open subscriber whose send does
\* not throw; when the line carries the marker nothing is published or sent.
C14_WorkerFailureAtMostOneLine ==
    [][/\ (step' = "start" /\ res'.status = 200) => task' = "pending"
       /\ step' = "worker_fail" =>
            /\ res' = res
            /\ isRunning' = isRunning
            /\ IF Marked(consoleLine'.text)
               THEN /\ published' = published
                    /\ frames' = frames
               ELSE LET m == Msg("ERROR", consoleLine'.text)
                    IN /\ published' = Append(published, m)
                       /\ \A s \in Sockets :
                             Subscribed(s) =>
                                frames'[s] =
                                   IF <<s, Len(published')>> \in failedSends'
                                   THEN frames[s]
                                   ELSE Append(frames[s], LogFrame(m))]_vars

\* the task of an accepted /start has failed: the response is still the 200 of
\* the start and the subscriber's last frame is the ERROR line
C14_Witness ==
    /\ step = "worker_fail"
    /\ task = "rejected"
    /\ res = Response("start", 200, "Script started")
    /\ published # <<>>
    /\ published[Len(published)].kind = "ERROR"
    /\ Subscribed(1)
    /\ frames[1][Len(frames[1])] = LogFrame(published[Len(published)])

Blank(field) == \A i \in DOMAIN field : field[i] = "sp"

\* C15: a click on Start sends POST /start exactly when every non-blank link
\* field begins, after trimming, with 'https://hiring.amazon', one link field
\* is non-blank and one position field is non-blank; a blank field of a list
\* of several gets no error, the blank field of a list of one gets the
\* required-field error; and a click that is rejected sends nothing.
C15_ClientSendsIff ==
    [][step' = "start_click" =>
          LET ok == /\ \A i \in DOMAIN formLinks :
                          ~Blank(formLinks[i]) =>
                              \E j \in DOMAIN formLinks[i] :
                                  /\ formLinks[i][j] = "P"
                                  /\ \A k \in 1..(j - 1) : formLinks[i][k] = "sp"
                    /\ \E i \in DOMAIN formLinks : ~Blank(formLinks[i])
                    /\ \E i \in DOMAIN formPositions : ~Blank(formPositions[i])
          IN /\ startRequest'.sent <=> ok
             /\ ~ok => (startRequest' = NoRequest /\ UNCHANGED serverVars)
             /\ \A i \in DOMAIN formLinks :
                   Blank(formLinks[i]) =>
                      errors'.links[i] = IF Len(formLinks) > 1 THEN ""
                                         ELSE "Job link cannot be empty"
             /\ \A i \in DOMAIN formPositions :
                   Blank(formPositions[i]) =>
                      errors'.positions[i] = IF Len(formPositions) > 1 THEN ""
                                             ELSE "Position cannot be empty"]_vars

\* a request was sent for a form with a blank link field next to a valid one
C15_Witness ==
    /\ step = "start_click"
    /\ startRequest.sent
    /\ Len(formLinks) = 2
    /\ \E i \in DOMAIN formLinks : Blank(formLinks[i])
    /\ errors.links = <<"", "">>
    /\ Len(startRequest.links) = 1

\* C16: every open of a client socket sets the retry counter to 0 and
\* isConnected to true, issues one status fetch and starts a heartbeat timer
\* for that socket; and every tick of a heartbeat timer whose socket is still
\* open sends the heartbeat on that socket.
C16_OpenResetsAndStartsHeartbeat ==
    [][/\ step' = "open" =>
            \E s \in Slots :
                /\ wsState[s] = "CONNECTING"
                /\ wsState'[s] = "OPEN"
                /\ ws' = s
                /\ retryCount' = 0
                /\ isConnected' = TRUE
                /\ fetches' = fetches + 1
                /\ s \notin heartbeats
                /\ heartbeats' = heartbeats \cup {s}
       /\ step' = "heartbeat" =>
            (wsState[beat'.timer] = "OPEN" =>
                /\ beat'.on = beat'.timer
                /\ beat'.timer \in heartbeats')]_vars

\* the heartbeat timer of the open socket has ticked and sent on that socket
C16_Witness ==
    /\ step = "heartbeat"
    /\ ws # 0
    /\ wsState[ws] = "OPEN"
    /\ beat = [timer |-> ws, on |-> ws]
    /\ retryCount = 0
    /\ isConnected

\* C17: at most one heartbeat timer is active in a Client Session, and a
\* heartbeat timer sends only on the socket whose open started it.
C17_OneHeartbeatTimer ==
    [][/\ Cardinality(heartbeats') <= 1
       /\ (step' = "heartbeat" /\ beat'.on # 0) => beat'.on = beat'.timer]_vars

C19_HeartbeatAnswered ==
    [][step' = "server_message" =>
          /\ srvIn'.frame = "heartbeat" =>
                frames' = [frames EXCEPT ![srvIn'.on] = Append(@, HeartbeatResponse)]
          /\ UNCHANGED <<clients, isAlive, readyState>>]_vars

\* C19 (amended): every heartbeat frame a socket receives is answered with one
\* heartbeat_response frame sent on that socket and on no other, unless the
\* send throws: then the error is caught and no frame is sent; and the handler
\* changes neither clients nor a liveness flag nor a readyState.
C19_HeartbeatAnsweredUnlessSendThrew ==
    [][step' = "server_message" =>
          /\ srvIn'.frame = "heartbeat" =>
                IF failedSends' = failedSends
                THEN frames' = [frames EXCEPT ![srvIn'.on] =
                                   Append(@, HeartbeatResponse)]
                ELSE /\ frames' = frames
                     /\ \E f \in failedSends' \ failedSends : f[1] = srvIn'.on
          /\ UNCHANGED <<clients, isAlive, readyState, pendingPing, pings>>]_vars

\* a heartbeat was answered on one of two open sockets, whose ping is still
\* unanswered: the other socket holds its welcome only
C19_Witness ==
    /\ step = "server_message"
    /\ srvIn.frame = "heartbeat"
    /\ \E s, t \in Sockets :
          /\ s # t
          /\ srvIn.on = s
          /\ Subscribed(s)
          /\ Subscribed(t)
          /\ isAlive[s] = FALSE
          /\ frames[s] = <<Welcome, HeartbeatResponse>>
          /\ frames[t] = <<Welcome>>

\* C20: a frame that is not valid JSON or lacks the expected field is dropped.
\* The client's handler appends nothing to the log and leaves isConnected, the
\* retry counter, the timers and the sockets as they were; the server's
\* handler sends no frame and leaves the socket in clients, open.
C20_MalformedFrameDropped ==
    [][/\ (step' = "message" /\ cliIn' # "log") =>
            /\ logged' = <<>>
            /\ UNCHANGED <<isConnected, retryCount, ws, wsState, timers,
                           statusMessage, heartbeats>>
       /\ (step' = "server_message" /\ srvIn'.frame # "heartbeat") =>
            /\ frames' = frames
            /\ UNCHANGED <<clients, readyState, isAlive, failedSends>>
            /\ \E i \in DOMAIN clients' : clients'[i] = srvIn'.on
            /\ readyState'[srvIn'.on] = "OPEN"]_vars

\* the client received a frame that is not JSON, then the server did, with a
\* second subscriber connected: the session is still connected on its open
\* socket and both subscribers hold their welcome only
C20_Witness ==
    /\ step = "server_message"
    /\ srvIn.frame = "malformed"
    /\ cliIn = "malformed"
    /\ logged = <<>>
    /\ isConnected
    /\ wsState[ws] = "OPEN"
    /\ \A s \in {1, 2} : Subscribed(s) /\ frames[s] = <<Welcome>>

\* the session's current channel is open
ChannelOpen == ws # 0 /\ wsState[ws] = "OPEN"

\* C21: isConnected and the retry counter are changed only by the transitions
\* of the reconnection state machine; a status fetch, from its call to its
\* answer, failure or timeout, leaves both unchanged, and isConnected is true
\* exactly when the session's current channel is open.
C21_ConnectionStateFrame ==
    [][/\ step' \in {"status_timer", "fetch"} =>
              UNCHANGED <<isConnected, retryCount>>
       /\ isConnected' <=> ChannelOpen']_vars

\* C22: the welcome is the first frame of every connection and is sent once.
\* A socket that has not connected holds no frame; one that has connected
\* holds the welcome first, whatever was published before, while or after it
\* connected, and holds no second welcome.
C22_WelcomeFirstOnce ==
    \A s \in Sockets :
        IF readyState[s] = "NONE"
        THEN frames[s] = <<>>
        ELSE /\ Len(frames[s]) >= 1
             /\ frames[s][1] = Welcome
             /\ \A i \in 2..Len(frames[s]) : frames[s][i] # Welcome

\* a line was published to the first subscriber, then the second connected,
\* then another line was published: the second holds its welcome and the
\* second line only
C22_Witness ==
    /\ Len(published) = 2
    /\ failedSends = {}
    /\ Subscribed(1) /\ joinedAt[1] = 0
    /\ Subscribed(2) /\ joinedAt[2] = 1
    /\ frames[1] = <<Welcome, LogFrame(published[1]), LogFrame(published[2])>>
    /\ frames[2] = <<Welcome, LogFrame(published[2])>>

\* a POST /start answered 400
Rejected(r) == r.route = "start" /\ r.status = 400

\* C23 (as stated): a rejected POST /start publishes nothing, does not call the
\* worker and leaves the run state as it was; while a worker is running every
\* POST /start is answered 'Script is already running', whatever its links
\* and positions.
C23_RejectedStartAlreadyRunning ==
    [][step' = "start" =>
          /\ Rejected(res') =>
                UNCHANGED <<published, frames, failedSends, workerVars, configsBuilt>>
          /\ isRunning => res' = AlreadyRunning]_vars

\* C23 (amended): a rejected POST /start publishes nothing, does not call the
\* worker and leaves the run state as it was; while a worker is running a
\* POST /start whose links and positions are arrays is answered 'Script is
\* already running', whatever the arrays hold, and one whose links or
\* positions are not an array is answered 'Invalid input format'.
C23_RejectedStartNoEffect ==
    [][step' = "start" =>
          /\ Rejected(res') =>
                UNCHANGED <<published, frames, failedSends, workerVars, configsBuilt>>
          /\ isRunning =>
                res' = IF reqBody'.links.isArray /\ reqBody'.positions.isArray
                       THEN AlreadyRunning
                       ELSE Response("start", 400, "Invalid input format")]_vars

\* while a worker is running, a POST /start with no accepted link and no
\* non-blank position was answered 'Script is already running'
C23_Witness ==
    /\ step = "start"
    /\ isRunning
    /\ workerStarts = 1
    /\ res = AlreadyRunning
    /\ reqBody.links.isArray /\ reqBody.positions.isArray
    /\ ~TrimThrows(reqBody.links.items) /\ ~TrimThrows(reqBody.positions.items)
    /\ Len(JobLinks(reqBody.links.items)) = 0
    /\ Len(TargetPositions(reqBody.positions.items)) = 0

\* the first field of a list that is not blank, as the user entered it
RECURSIVE FirstNonBlank(_)
FirstNonBlank(fields) ==
    IF fields = <<>> THEN <<>>
    ELSE IF ~Blank(Head(fields)) THEN Head(fields)
    ELSE FirstNonBlank(Tail(fields))

\* C24: a request body the client's validation let through is accepted by the
\* backend when no worker is running: the answer is 200, not 400, the worker
\* is started, and the primary target of its config is the first non-blank
\* link field of the form, as entered.
C24_ClientStricterThanServer ==
    [][(step' = "start" /\ startRequest.sent /\ ~isRunning) =>
          /\ res' = Response("start", 200, "Script started")
          /\ workerStarts' = workerStarts + 1
          /\ config'.AMAZON_JOBS_URL = FirstNonBlank(formLinks)]_vars

\* the backend accepted the request of a form whose first link field is blank
\* and whose second begins with whitespace: the target is the second field
\* with its whitespace
C24_Witness ==
    /\ step = "start"
    /\ startRequest.sent
    /\ startRequest.answer = Response("start", 200, "Script started")
    /\ isRunning
    /\ formLinks = << <<>>, <<"sp", "P", "x">> >>
    /\ config.AMAZON_JOBS_URL = <<"sp", "P", "x">>

====
